---- MODULE Spec2Model ----
(***************************************************************************)
(* Lightstack UI API (src/ui/backend/main.py): a FastAPI application that  *)
(* authenticates an operator with a signed bearer token and drives the     *)
(* provisioner script init.sh (list / add / del) as a child process.       *)
(*                                                                         *)
(* Texts that the program parses or assembles are sequences of             *)
(* one-character strings; the fixed literals of messages are kept as       *)
(* single fragments.  An optional value is a sequence of length 0 or 1.    *)
(* Time is counted in minutes.                                             *)
(***************************************************************************)
EXTENDS Integers, Sequences, FiniteSets, TLC

VARIABLES
    now,         \* the clock, datetime.utcnow(), in minutes
    USERS_DB,    \* the credential store (module global)
    SECRET_KEY,  \* the signing key (module global)
    issued,      \* tokens handed out by /token, each with its time of issue
    lastLogin,   \* the response of the most recent POST /token
    loop,        \* the request the event loop is running, 0 when it is free
    pc,          \* per request: its phase
    request,     \* per request: operation, bearer token, body, path parameter
    auth,        \* per request: what get_current_user decided, and when
    proc,        \* per request: the provisioner child process
    spawns,      \* per request: how many times the provisioner was started
    result,      \* per request: the response
    waiting,     \* the requests sent to the server that it has not taken up
    acked        \* history: the ids whose removal was acknowledged to a caller

vars == <<now, USERS_DB, SECRET_KEY, issued, lastLogin, loop, pc, request,
          auth, proc, spawns, result, waiting, acked>>

----------------------------------------------------------------------------
(* Bounds of the model *)

NumReqs == 2
MaxTime == 45
TickMinutes == 15
MaxExitCode == 1
MaxOutPieces == 4
MaxLines == 3
MaxFieldLen == 2

Reqs == 1..NumReqs

(* Program constants *)

ACCESS_TOKEN_EXPIRE_MINUTES == 30
DefaultExpireMinutes == 15
ALGORITHM == "HS256"
INIT_SCRIPT == "init.sh"

HTTP_200_OK == 200
HTTP_401_UNAUTHORIZED == 401
HTTP_500_INTERNAL_SERVER_ERROR == 500

----------------------------------------------------------------------------
(* Texts *)

NL == "\n"
Whitespace == {" ", "\t", NL}
Digits == {"0", "1", "2", "3", "4", "5", "6", "7", "8", "9"}

SeqsUpTo(S, n) == UNION {[1..k -> S] : k \in 0..n}

RECURSIVE Concat(_)
Concat(ss) == IF ss = <<>> THEN <<>> ELSE Head(ss) \o Concat(Tail(ss))

Contains(sub, s) ==
    \E i \in 0..(Len(s) - Len(sub)) : SubSeq(s, i + 1, i + Len(sub)) = sub

IsPrefix(p, s) == Len(p) <= Len(s) /\ SubSeq(s, 1, Len(p)) = p

(* str.strip() *)
RECURSIVE lstrip(_)
lstrip(s) ==
    IF s # <<>> /\ Head(s) \in Whitespace THEN lstrip(Tail(s)) ELSE s

RECURSIVE rstrip(_)
rstrip(s) ==
    IF s # <<>> /\ s[Len(s)] \in Whitespace
    THEN rstrip(SubSeq(s, 1, Len(s) - 1))
    ELSE s

strip(s) == rstrip(lstrip(s))

(* str.split(sep): the pieces between the occurrences of sep, empty ones kept *)
RECURSIVE split(_, _)
split(s, sep) ==
    IF \E i \in 1..Len(s) : s[i] = sep
    THEN LET i == CHOOSE k \in 1..Len(s) :
                      s[k] = sep /\ \A j \in 1..(k - 1) : s[j] # sep
         IN  <<SubSeq(s, 1, i - 1)>> \o split(SubSeq(s, i + 1, Len(s)), sep)
    ELSE <<s>>

(* str.split(): the maximal runs of non-whitespace characters *)
RECURSIVE split_ws(_)
split_ws(s) ==
    LET t == lstrip(s) IN
    IF t = <<>> THEN <<>>
    ELSE LET n == CHOOSE k \in 1..Len(t) :
                      /\ \A j \in 1..k : t[j] \notin Whitespace
                      /\ (k = Len(t) \/ t[k + 1] \in Whitespace)
         IN  <<SubSeq(t, 1, n)>> \o split_ws(SubSeq(t, n + 1, Len(t)))

(* str(None) inside an f-string *)
NoneText == <<"N", "o", "n", "e">>

----------------------------------------------------------------------------
(* Responses *)

Response(status, type, detail, stacks, message) ==
    [status |-> status, type |-> type, detail |-> detail,
     stacks |-> stacks, message |-> message]

NoResponse == Response(0, "none", <<>>, <<>>, <<>>)

(* raise HTTPException(status_code, detail), rendered by FastAPI *)
HTTPException(status_code, detail) ==
    Response(status_code, "error", detail, <<>>, <<>>)

(* an exception no handler catches: the server's plain 500 page *)
UnhandledException ==
    Response(HTTP_500_INTERNAL_SERVER_ERROR, "plain", <<>>, <<>>,
             <<"Internal Server Error">>)

(* a build whose HTTPException has no __str__ of its own *)
StrHTTPException_Empty(e) == <<>>

(* str(e) of an HTTPException *)
StrHTTPException(e) == <<"500", ": ">> \o e.detail

(* the start failure reported in the words of a failed run *)
StrOSError_AsFailure(kind) == <<"500", ": ", "Failed to add stack: ">>

(* str(e) of the OSError Popen raises when the script cannot be run *)
StrOSError(kind) ==
    IF kind = "ENOENT"
    THEN <<"[Errno 2] No such file or directory: ", INIT_SCRIPT>>
    ELSE <<"[Errno 13] Permission denied: ", INIT_SCRIPT>>

----------------------------------------------------------------------------
(* Authentication *)

InitialUsers ==
    [u \in {"admin"} |-> [username |-> "admin", password |-> "adminpassword"]]

InitialSecret == "your-secret-key"

verify_password(plain_password, username) ==
    IF username \notin DOMAIN USERS_DB THEN FALSE
    ELSE plain_password = USERS_DB[username].password

get_user(username) ==
    IF username \in DOMAIN USERS_DB THEN <<USERS_DB[username]>> ELSE <<>>

authenticate_user(username, password) ==
    LET user == get_user(username) IN
    IF user = <<>> THEN <<>>
    ELSE IF ~verify_password(password, username) THEN <<>>
    ELSE user

(* jwt.encode of {"sub": ..., "exp": ...} under SECRET_KEY *)
create_access_token(data, expires_delta) ==
    LET expire == IF expires_delta # <<>>
                  THEN now + expires_delta[1]
                  ELSE now + DefaultExpireMinutes
    IN  [wf |-> TRUE, key |-> SECRET_KEY, alg |-> ALGORITHM,
         sub |-> <<data.sub>>, exp |-> expire]

(* decoding with verify_exp switched off *)
jwt_decode_NoExp(token, key, algorithms, atExpiry) ==
    IF token.wf /\ token.key = key /\ token.alg \in algorithms
    THEN <<[sub |-> token.sub, exp |-> token.exp]>>
    ELSE <<>>

(* jwt.decode: the payload, or nothing when it raises a PyJWTError.  At the
   very minute of expiry the library's releases disagree (exp < now against
   exp <= now): atExpiry says whether this build still accepts the token. *)
jwt_decode(token, key, algorithms, atExpiry) ==
    IF /\ token.wf
       /\ token.key = key
       /\ token.alg \in algorithms
       /\ (token.exp > now \/ (token.exp = now /\ atExpiry))
    THEN <<[sub |-> token.sub, exp |-> token.exp]>>
    ELSE <<>>

credentials_exception ==
    HTTPException(HTTP_401_UNAUTHORIZED, <<"Could not validate credentials">>)

(* OAuth2PasswordBearer without an Authorization header *)
not_authenticated ==
    HTTPException(HTTP_401_UNAUTHORIZED, <<"Not authenticated">>)

(* the gate without the look-up of the subject in USERS_DB *)
get_current_user_NoLookup(token, atExpiry) ==
    IF token = <<>> THEN [user |-> <<>>, error |-> not_authenticated]
    ELSE
    LET payload == jwt_decode(token[1], SECRET_KEY, {ALGORITHM}, atExpiry) IN
    IF payload = <<>> THEN [user |-> <<>>, error |-> credentials_exception]
    ELSE IF payload[1].sub = <<>>
         THEN [user |-> <<>>, error |-> credentials_exception]
    ELSE [user |-> payload[1].sub, error |-> NoResponse]

(* a gate that tells the caller when the subject is not in USERS_DB *)
get_current_user_Leaky(token, atExpiry) ==
    IF token = <<>> THEN [user |-> <<>>, error |-> not_authenticated]
    ELSE
    LET payload == jwt_decode(token[1], SECRET_KEY, {ALGORITHM}, atExpiry) IN
    IF payload = <<>> THEN [user |-> <<>>, error |-> credentials_exception]
    ELSE IF payload[1].sub = <<>>
         THEN [user |-> <<>>, error |-> credentials_exception]
    ELSE LET user == get_user(payload[1].sub[1]) IN
         IF user = <<>>
         THEN [user |-> <<>>,
               error |-> HTTPException(HTTP_401_UNAUTHORIZED,
                                       <<"User not found">>)]
         ELSE [user |-> <<user[1].username>>, error |-> NoResponse]

(* get_current_user: [user |-> the user, or nothing; error |-> the 401] *)
get_current_user(token, atExpiry) ==
    IF token = <<>> THEN [user |-> <<>>, error |-> not_authenticated]
    ELSE
    LET payload == jwt_decode(token[1], SECRET_KEY, {ALGORITHM}, atExpiry) IN
    IF payload = <<>> THEN [user |-> <<>>, error |-> credentials_exception]
    ELSE IF payload[1].sub = <<>>
         THEN [user |-> <<>>, error |-> credentials_exception]
    ELSE LET user == get_user(payload[1].sub[1]) IN
         IF user = <<>> THEN [user |-> <<>>, error |-> credentials_exception]
         ELSE [user |-> <<user[1].username>>, error |-> NoResponse]

----------------------------------------------------------------------------
(* Stack Command Builder: the text written to the provisioner's stdin *)

YesNo(flag) == IF flag THEN <<"y">> ELSE <<"n">>

(* {stack.email} of an Optional[str] *)
FormatOptional(value) == IF value = <<>> THEN NoneText ELSE value[1]

(* the f-string `answers` of add_stack *)
AddAnswers(stack) ==
    stack.phoenixd_domain \o <<NL>>
    \o stack.lnbits_domain \o <<NL>>
    \o YesNo(stack.use_real_certs) \o <<NL>>
    \o (IF stack.use_real_certs THEN FormatOptional(stack.email) ELSE <<>>)
    \o <<NL>>
    \o YesNo(stack.use_postgres) \o <<NL>>
    \o <<"y", NL>>

(* f"{stack_id}\ny\n" of remove_stack *)
DelAnswers(stack_id) == stack_id \o <<NL, "y", NL>>

StdinFor(req) ==
    CASE req.op = "add" -> AddAnswers(req.body[1])
      [] req.op = "del" -> DelAnswers(req.stack_id)
      [] OTHER -> <<>>

----------------------------------------------------------------------------
(* Stack Directory Reader and the id extraction *)

(* the two domains taken in the wrong order *)
StackResponse_Swapped(id, phoenixd_domain, lnbits_domain) ==
    [id |-> id, phoenixd_domain |-> lnbits_domain,
     lnbits_domain |-> phoenixd_domain]

StackResponse(id, phoenixd_domain, lnbits_domain) ==
    [id |-> id, phoenixd_domain |-> phoenixd_domain,
     lnbits_domain |-> lnbits_domain]

(* the for loop of get_stacks: raised when a line does not unpack into three *)
RECURSIVE ParseLoop(_, _)
ParseLoop(lines, stacks) ==
    IF lines = <<>> THEN [raised |-> FALSE, stacks |-> stacks]
    ELSE LET line == Head(lines) IN
         IF line = <<>> THEN ParseLoop(Tail(lines), stacks)
         ELSE LET toks == split_ws(line) IN
              IF Len(toks) # 3 THEN [raised |-> TRUE, stacks |-> stacks]
              ELSE ParseLoop(Tail(lines),
                             Append(stacks,
                                    StackResponse(toks[1], toks[2], toks[3])))

ParseListing(stdout) == ParseLoop(split(strip(stdout), NL), <<>>)

StackPrefix == <<"s", "t", "a", "c", "k", "_">>

MatchAt(s, i) ==
    /\ i + Len(StackPrefix) <= Len(s)
    /\ SubSeq(s, i, i + Len(StackPrefix) - 1) = StackPrefix
    /\ s[i + Len(StackPrefix)] \in Digits

(* the pattern with \d for \d+ *)
DigitRun_One(s, i) == <<s[i]>>

RECURSIVE DigitRun(_, _)
DigitRun(s, i) ==
    IF i <= Len(s) /\ s[i] \in Digits
    THEN <<s[i]>> \o DigitRun(s, i + 1)
    ELSE <<>>

RECURSIVE SearchFrom(_, _)
SearchFrom(s, i) ==
    IF i > Len(s) THEN <<>>
    ELSE IF MatchAt(s, i) THEN <<DigitRun(s, i + Len(StackPrefix))>>
    ELSE SearchFrom(s, i + 1)

(* the pattern with \d* for \d+, which matches a bare "stack_" *)
re_search_Star(stdout) ==
    IF \E i \in 1..Len(stdout) :
           i + Len(StackPrefix) - 1 <= Len(stdout)
           /\ SubSeq(stdout, i, i + Len(StackPrefix) - 1) = StackPrefix
    THEN LET i == CHOOSE k \in 1..Len(stdout) :
                      /\ k + Len(StackPrefix) - 1 <= Len(stdout)
                      /\ SubSeq(stdout, k, k + Len(StackPrefix) - 1) = StackPrefix
                      /\ \A j \in 1..(k - 1) :
                            ~(/\ j + Len(StackPrefix) - 1 <= Len(stdout)
                              /\ SubSeq(stdout, j, j + Len(StackPrefix) - 1)
                                    = StackPrefix)
         IN  <<DigitRun(stdout, i + Len(StackPrefix))>>
    ELSE <<>>

(* re.search(r"stack_(\d+)", stdout): group 1 of the leftmost match *)
re_search(stdout) == SearchFrom(stdout, 1)

----------------------------------------------------------------------------
(* The three handlers, from the child's outcome to the response *)

NoProc ==
    [state |-> "none", cmd |-> "none", stdin |-> <<>>, returncode |-> 0,
     stdout |-> <<>>, stderr |-> <<>>, oserror |-> "none"]

(* a reader that keeps the removals it has seen acknowledged and leaves
   those stacks out of the listing *)
get_stacks_Cached(req, p) ==
    IF p.state = "nostart" THEN UnhandledException
    ELSE IF p.returncode # 0
    THEN HTTPException(HTTP_500_INTERNAL_SERVER_ERROR,
                       <<"Failed to list stacks: ">> \o p.stderr)
    ELSE LET parsed == ParseListing(p.stdout)
             Kept(s) == s.id \notin acked
         IN  IF parsed.raised THEN UnhandledException
             ELSE Response(HTTP_200_OK, "stacks", <<>>,
                           SelectSeq(parsed.stacks, Kept), <<>>)

(* a reader that leaves out the lines it cannot read and returns the rest *)
get_stacks_Partial(req, p) ==
    IF p.state = "nostart" THEN UnhandledException
    ELSE IF p.returncode # 0
    THEN HTTPException(HTTP_500_INTERNAL_SERVER_ERROR,
                       <<"Failed to list stacks: ">> \o p.stderr)
    ELSE Response(HTTP_200_OK, "stacks", <<>>, ParseListing(p.stdout).stacks,
                  <<>>)

get_stacks(req, p) ==
    IF p.state = "nostart" THEN UnhandledException
    ELSE IF p.returncode # 0
    THEN HTTPException(HTTP_500_INTERNAL_SERVER_ERROR,
                       <<"Failed to list stacks: ">> \o p.stderr)
    ELSE LET parsed == ParseListing(p.stdout) IN
         IF parsed.raised THEN UnhandledException
         ELSE Response(HTTP_200_OK, "stacks", <<>>, parsed.stacks, <<>>)

(* except Exception as e: raise HTTPException(500, detail=str(e)) *)
Reraise(text) == HTTPException(HTTP_500_INTERNAL_SERVER_ERROR, text)

add_stack(req, p) ==
    IF p.state = "nostart" THEN Reraise(StrOSError(p.oserror))
    ELSE IF p.returncode # 0
    THEN Reraise(StrHTTPException(
             HTTPException(HTTP_500_INTERNAL_SERVER_ERROR,
                           <<"Failed to add stack: ">> \o p.stderr)))
    ELSE LET match == re_search(p.stdout) IN
         IF match = <<>>
         THEN Reraise(StrHTTPException(
                  HTTPException(HTTP_500_INTERNAL_SERVER_ERROR,
                                <<"Failed to extract stack ID from output">>)))
         ELSE Response(HTTP_200_OK, "stack", <<>>,
                       <<StackResponse(match[1], req.body[1].phoenixd_domain,
                                       req.body[1].lnbits_domain)>>,
                       <<>>)

(* a handler that remembers the removals it acknowledged and answers for
   the provisioner when the id comes again *)
remove_stack_Masked(req, p) ==
    IF req.stack_id \in acked
    THEN Response(HTTP_200_OK, "message", <<>>, <<>>,
                  <<"Stack ">> \o req.stack_id \o <<" already removed">>)
    ELSE IF p.state = "nostart" THEN Reraise(StrOSError(p.oserror))
    ELSE IF p.returncode # 0
    THEN Reraise(StrHTTPException(
             HTTPException(HTTP_500_INTERNAL_SERVER_ERROR,
                           <<"Failed to remove stack: ">> \o p.stderr)))
    ELSE Response(HTTP_200_OK, "message", <<>>, <<>>,
                  <<"Stack ">> \o req.stack_id \o <<" removed successfully">>)

remove_stack(req, p) ==
    IF p.state = "nostart" THEN Reraise(StrOSError(p.oserror))
    ELSE IF p.returncode # 0
    THEN Reraise(StrHTTPException(
             HTTPException(HTTP_500_INTERNAL_SERVER_ERROR,
                           <<"Failed to remove stack: ">> \o p.stderr)))
    ELSE Response(HTTP_200_OK, "message", <<>>, <<>>,
                  <<"Stack ">> \o req.stack_id \o <<" removed successfully">>)

HandlerResult(req, p) ==
    CASE req.op = "list" -> get_stacks(req, p)
      [] req.op = "add" -> add_stack(req, p)
      [] req.op = "del" -> remove_stack(req, p)

----------------------------------------------------------------------------
(* What callers and the provisioner may supply *)

Usernames == {"admin", "mallory"}
Passwords == {"adminpassword", "guess"}

Ops == {"list", "add", "del"}

IssuedTokens == {i.token : i \in issued}

(* tokens that did not come from /token: garbage, one signed with another
   key, and two signed with the key but naming nobody, or nobody known *)
ForeignTokens ==
    LET far == MaxTime + ACCESS_TOKEN_EXPIRE_MINUTES IN
    { [wf |-> FALSE, key |-> "", alg |-> ALGORITHM, sub |-> <<>>, exp |-> far],
      [wf |-> TRUE, key |-> "other-key", alg |-> ALGORITHM,
       sub |-> <<"admin">>, exp |-> far],
      [wf |-> TRUE, key |-> SECRET_KEY, alg |-> ALGORITHM,
       sub |-> <<>>, exp |-> far],
      [wf |-> TRUE, key |-> SECRET_KEY, alg |-> ALGORITHM,
       sub |-> <<"ghost">>, exp |-> far] }

BearerTokens == {<<>>} \cup {<<t>> : t \in IssuedTokens \cup ForeignTokens}

(* for the specifications that explore one handler in depth *)
FewBearerTokens == {<<>>} \cup {<<t>> : t \in IssuedTokens}

Stack(phoenixd_domain, lnbits_domain, use_real_certs, use_postgres, email) ==
    [phoenixd_domain |-> phoenixd_domain, lnbits_domain |-> lnbits_domain,
     use_real_certs |-> use_real_certs, use_postgres |-> use_postgres,
     email |-> email]

FewBodies ==
    { Stack(<<"p">>, <<"w">>, FALSE, FALSE, <<>>),
      Stack(<<"q">>, <<"v">>, TRUE, TRUE, <<<<"e">>>>),
      Stack(<<"p">>, <<"v">>, TRUE, FALSE, <<>>) }

FieldTexts(letter) == SeqsUpTo({letter, NL}, MaxFieldLen)

ManyBodies ==
    { Stack(pd, ld, c, g, e) :
        pd \in FieldTexts("p"), ld \in FieldTexts("w"),
        c \in BOOLEAN, g \in BOOLEAN,
        e \in {<<>>} \cup {<<t>> : t \in FieldTexts("e")} }

(* the path parameter stack_id: any text that is not empty (it is taken
   from the percent-decoded path, so %0A gives a newline) *)
ManyIds == FieldTexts("7") \ {<<>>}

FewIds == {<<"7">>, <<"4", "2">>}

ExitCodes == 0..MaxExitCode

FewStderrs == {<<>>, <<"certificate", " ", "issuance", " ", "failed">>}

FewStdouts(cmd) ==
    CASE cmd = "list" ->
           { <<>>,
             <<"7", " ", "p", " ", "w", NL>>,
             <<"7", " ", "p", NL>> }
      [] cmd = "add" ->
           { StackPrefix \o <<"4", "2", NL>>, <<"o", "k", NL>> }
      [] OTHER -> { <<>> }

(* add: stdout put together from a few pieces *)
OutPieces == {StackPrefix, <<"4">>, <<"2">>, <<"x">>}

AddStdouts == {Concat(ps) : ps \in SeqsUpTo(OutPieces, MaxOutPieces)}

(* list: stdout put together from lines, the last newline present or not *)
WellFormedLines ==
    { [text |-> <<"7", " ", "p", " ", "w">>,
       id |-> <<"7">>, phoenixd |-> <<"p">>, lnbits |-> <<"w">>],
      [text |-> <<"8", " ", "q", " ", "v">>,
       id |-> <<"8">>, phoenixd |-> <<"q">>, lnbits |-> <<"v">>],
      [text |-> <<" ", "9", "\t", "p", "q", " ", " ", "w", " ">>,
       id |-> <<"9">>, phoenixd |-> <<"p", "q">>, lnbits |-> <<"w">>] }

ListingLines ==
    {l.text : l \in WellFormedLines}
    \cup { <<>>,
           <<" ">>,
           <<"7", " ", "p">>,
           <<"7">>,
           <<"7", " ", "p", " ", "w", " ", "x">> }

RECURSIVE JoinLines(_)
JoinLines(ls) ==
    IF ls = <<>> THEN <<>> ELSE Head(ls) \o <<NL>> \o JoinLines(Tail(ls))

ListStdouts ==
    LET whole == {JoinLines(ls) : ls \in SeqsUpTo(ListingLines, MaxLines)}
    IN  whole \cup {SubSeq(t, 1, Len(t) - 1) : t \in whole \ {<<>>}}

----------------------------------------------------------------------------
(* State *)

NoRequest == [op |-> "none", token |-> <<>>, body |-> <<>>, stack_id |-> <<>>]
NoAuth == [done |-> FALSE, at |-> 0, user |-> <<>>]
NoLogin ==
    [username |-> "", password |-> "", status |-> 0, detail |-> <<>>,
     access_token |-> <<>>]

Init ==
    /\ now = 0
    /\ USERS_DB = InitialUsers
    /\ SECRET_KEY = InitialSecret
    /\ issued = {}
    /\ lastLogin = NoLogin
    /\ loop = 0
    /\ pc = [r \in Reqs |-> "Idle"]
    /\ request = [r \in Reqs |-> NoRequest]
    /\ auth = [r \in Reqs |-> NoAuth]
    /\ proc = [r \in Reqs |-> NoProc]
    /\ spawns = [r \in Reqs |-> 0]
    /\ result = [r \in Reqs |-> NoResponse]
    /\ waiting = {}
    /\ acked = {}

----------------------------------------------------------------------------
(* Actions *)

(* time passes *)
Tick ==
    /\ now + TickMinutes <= MaxTime
    /\ now' = now + TickMinutes
    /\ UNCHANGED <<USERS_DB, SECRET_KEY, issued, lastLogin, loop, pc, request,
                   auth, proc, spawns, result, waiting, acked>>

(* POST /token *)
login_for_access_token(username, password) ==
    /\ loop = 0
    /\ LET user == authenticate_user(username, password) IN
       IF user = <<>>
       THEN /\ lastLogin' = [username |-> username, password |-> password,
                             status |-> HTTP_401_UNAUTHORIZED,
                             detail |-> <<"Incorrect username or password">>,
                             access_token |-> <<>>]
            /\ UNCHANGED issued
       ELSE LET access_token ==
                    create_access_token([sub |-> user[1].username],
                                        <<ACCESS_TOKEN_EXPIRE_MINUTES>>)
            IN  /\ lastLogin' = [username |-> username, password |-> password,
                                 status |-> HTTP_200_OK, detail |-> <<>>,
                                 access_token |-> <<access_token>>]
                /\ issued' = issued \cup {[token |-> access_token, iat |-> now]}
    /\ UNCHANGED <<now, USERS_DB, SECRET_KEY, loop, pc, request, auth, proc,
                   spawns, result, waiting, acked>>

(* handlers that run in a pool of threads, as plain `def` handlers would *)
LoopFree_Threads == TRUE

(* the event loop is not inside a handler: the handlers are `async def` and
   call the blocking subprocess functions, and uvicorn.run serves with one
   event loop *)
LoopFree == loop = 0

(* a caller sends a request; it waits until the server takes it up *)
Send(r) ==
    /\ pc[r] = "Idle"
    /\ r \notin waiting
    /\ waiting' = waiting \cup {r}
    /\ UNCHANGED <<now, USERS_DB, SECRET_KEY, issued, lastLogin, loop, pc,
                   request, auth, proc, spawns, result, acked>>

(* a GET /stacks, POST /stacks or DELETE /stacks/{id} request is taken up.
   The handlers are `async def` and call the blocking subprocess functions,
   and uvicorn.run serves with one event loop: from get_current_user to the
   response the loop runs this request and no other. *)
Receive(r, ops, tokens, bodies, ids) ==
    /\ LoopFree
    /\ r \in waiting
    /\ pc[r] = "Idle"
    /\ waiting' = waiting \ {r}
    /\ \E op \in ops, token \in tokens :
         \E body \in (IF op = "add" THEN {<<b>> : b \in bodies} ELSE {<<>>}),
            stack_id \in (IF op = "del" THEN ids ELSE {<<>>}) :
              request' = [request EXCEPT
                            ![r] = [op |-> op, token |-> token,
                                    body |-> body, stack_id |-> stack_id]]
    /\ pc' = [pc EXCEPT ![r] = "Authorizing"]
    /\ loop' = r
    /\ UNCHANGED <<now, USERS_DB, SECRET_KEY, issued, lastLogin, auth, proc,
                   spawns, result, acked>>

(* Depends(get_current_user) *)
Authorize(r) ==
    /\ loop = r
    /\ pc[r] = "Authorizing"
    /\ \E atExpiry \in BOOLEAN :
         LET got == get_current_user(request[r].token, atExpiry) IN
         /\ auth' = [auth EXCEPT
                       ![r] = [done |-> TRUE, at |-> now, user |-> got.user]]
         /\ IF got.user # <<>>
            THEN /\ pc' = [pc EXCEPT ![r] = "Invoking"]
                 /\ UNCHANGED result
            ELSE /\ pc' = [pc EXCEPT ![r] = "Terminal"]
                 /\ result' = [result EXCEPT ![r] = got.error]
    /\ UNCHANGED <<now, USERS_DB, SECRET_KEY, issued, lastLogin, loop,
                   request, proc, spawns, waiting, acked>>

(* a handler that starts the provisioner again after a failure *)
MayStart_Retry(r) ==
    \/ pc[r] = "Invoking" /\ proc[r].state = "none"
    \/ pc[r] = "Failed"

(* subprocess.run / subprocess.Popen: the guard of the one place that starts
   the provisioner *)
MayStart(r) == pc[r] = "Invoking" /\ proc[r].state = "none"

(* the child is started with its stdin, or the script cannot be run *)
Start(r) ==
    /\ loop = r
    /\ MayStart(r)
    /\ spawns' = [spawns EXCEPT ![r] = @ + 1]
    /\ \/ /\ proc' = [proc EXCEPT
                        ![r] = [NoProc EXCEPT
                                  !.state = "running",
                                  !.cmd = request[r].op,
                                  !.stdin = StdinFor(request[r])]]
          /\ pc' = [pc EXCEPT ![r] = "Invoking"]
       \/ \E kind \in {"ENOENT", "EACCES"} :
          /\ proc' = [proc EXCEPT
                        ![r] = [NoProc EXCEPT
                                  !.state = "nostart",
                                  !.cmd = request[r].op,
                                  !.oserror = kind]]
          /\ pc' = [pc EXCEPT ![r] = "Failed"]
    /\ UNCHANGED <<now, USERS_DB, SECRET_KEY, issued, lastLogin, loop,
                   request, auth, result, waiting, acked>>

(* the child exits; communicate() returns and the return code is looked at *)
Exit(r, stdouts, stderrs) ==
    /\ loop = r
    /\ proc[r].state = "running"
    /\ \E returncode \in ExitCodes, stdout \in stdouts, stderr \in stderrs :
         /\ proc' = [proc EXCEPT
                       ![r] = [@ EXCEPT !.state = "exited",
                                        !.returncode = returncode,
                                        !.stdout = stdout,
                                        !.stderr = stderr]]
         /\ pc' = [pc EXCEPT
                     ![r] = IF returncode = 0 THEN "Parsing" ELSE "Failed"]
    /\ UNCHANGED <<now, USERS_DB, SECRET_KEY, issued, lastLogin, loop,
                   request, auth, spawns, result, waiting, acked>>

(* a bounded wait: the handler goes on although the child still runs *)
Returned_Timeout(r) ==
    pc[r] \in {"Parsing", "Failed"} \/ proc[r].state = "running"

(* subprocess.run / communicate() has returned or raised: they do so only
   when the child has exited or could not be started *)
Returned(r) == pc[r] \in {"Parsing", "Failed"}

(* the rest of the handler: the output is interpreted, the response is built *)
Complete(r) ==
    /\ loop = r
    /\ Returned(r)
    /\ result' = [result EXCEPT ![r] = HandlerResult(request[r], proc[r])]
    /\ pc' = [pc EXCEPT ![r] = "Terminal"]
    /\ UNCHANGED <<now, USERS_DB, SECRET_KEY, issued, lastLogin, loop,
                   request, auth, proc, spawns, waiting, acked>>

(* the response is sent; nothing of the request is kept *)
Respond(r) ==
    /\ loop = r
    /\ pc[r] = "Terminal"
    /\ pc' = [pc EXCEPT ![r] = "Idle"]
    /\ request' = [request EXCEPT ![r] = NoRequest]
    /\ auth' = [auth EXCEPT ![r] = NoAuth]
    /\ proc' = [proc EXCEPT ![r] = NoProc]
    /\ spawns' = [spawns EXCEPT ![r] = 0]
    /\ result' = [result EXCEPT ![r] = NoResponse]
    /\ loop' = 0
    /\ acked' = IF request[r].op = "del" /\ result[r].status = HTTP_200_OK
                THEN acked \cup {request[r].stack_id}
                ELSE acked
    /\ UNCHANGED <<now, USERS_DB, SECRET_KEY, issued, lastLogin, waiting>>

----------------------------------------------------------------------------
(* Specifications *)

Login == \E username \in Usernames, password \in Passwords :
             login_for_access_token(username, password)

(* every operation, with a few inputs each, and time passing *)
Next ==
    \/ Tick
    \/ Login
    \/ \E r \in Reqs : Send(r)
    \/ \E r \in Reqs : Receive(r, Ops, BearerTokens, FewBodies, FewIds)
    \/ \E r \in Reqs : Authorize(r)
    \/ \E r \in Reqs : Start(r)
    \/ \E r \in Reqs : Exit(r, FewStdouts(proc[r].cmd), FewStderrs)
    \/ \E r \in Reqs : Complete(r)
    \/ \E r \in Reqs : Respond(r)

Spec == Init /\ [][Next]_vars

(* POST /stacks over many outputs of `init.sh add` *)
NextCreate ==
    \/ Login
    \/ \E r \in Reqs : Send(r)
    \/ \E r \in Reqs : Receive(r, {"add"}, FewBearerTokens, FewBodies, FewIds)
    \/ \E r \in Reqs : Authorize(r)
    \/ \E r \in Reqs : Start(r)
    \/ \E r \in Reqs : Exit(r, AddStdouts, {<<>>})
    \/ \E r \in Reqs : Complete(r)
    \/ \E r \in Reqs : Respond(r)

SpecCreate == Init /\ [][NextCreate]_vars

(* POST /stacks over many request bodies *)
NextBuilder ==
    \/ Login
    \/ \E r \in Reqs : Send(r)
    \/ \E r \in Reqs : Receive(r, {"add"}, FewBearerTokens, ManyBodies, FewIds)
    \/ \E r \in Reqs : Authorize(r)
    \/ \E r \in Reqs : Start(r)
    \/ \E r \in Reqs : Exit(r, FewStdouts(proc[r].cmd), {<<>>})
    \/ \E r \in Reqs : Complete(r)
    \/ \E r \in Reqs : Respond(r)

SpecBuilder == Init /\ [][NextBuilder]_vars

(* GET /stacks over many outputs of `init.sh list` *)
NextReader ==
    \/ login_for_access_token("admin", "adminpassword")
    \/ \E r \in Reqs : Send(r)
    \/ \E r \in Reqs : Receive(r, {"list"}, FewBearerTokens, FewBodies, FewIds)
    \/ \E r \in Reqs : Authorize(r)
    \/ \E r \in Reqs : Start(r)
    \/ \E r \in Reqs : Exit(r, ListStdouts, FewStderrs)
    \/ \E r \in Reqs : Complete(r)
    \/ \E r \in Reqs : Respond(r)

SpecReader == Init /\ [][NextReader]_vars

(* DELETE /stacks/{stack_id} over many ids *)
NextRemove ==
    \/ login_for_access_token("admin", "adminpassword")
    \/ \E r \in Reqs : Send(r)
    \/ \E r \in Reqs : Receive(r, {"del"}, FewBearerTokens, FewBodies, ManyIds)
    \/ \E r \in Reqs : Authorize(r)
    \/ \E r \in Reqs : Start(r)
    \/ \E r \in Reqs : Exit(r, {<<>>}, {<<>>})
    \/ \E r \in Reqs : Complete(r)
    \/ \E r \in Reqs : Respond(r)

SpecRemove == Init /\ [][NextRemove]_vars

(* the operations while time passes, under the scheduling of the event
   loop: it goes on with a handler whenever the handler can go on; nothing
   makes a child exit, and nothing makes a caller send a request *)
NextLive ==
    \/ Tick
    \/ login_for_access_token("admin", "adminpassword")
    \/ \E r \in Reqs : Send(r)
    \/ \E r \in Reqs : Receive(r, Ops, FewBearerTokens,
                                {Stack(<<"p">>, <<"w">>, FALSE, FALSE, <<>>)},
                                {<<"7">>})
    \/ \E r \in Reqs : Authorize(r)
    \/ \E r \in Reqs : Start(r)
    \/ \E r \in Reqs : Exit(r, {<<>>}, {<<>>})
    \/ \E r \in Reqs : Complete(r)
    \/ \E r \in Reqs : Respond(r)

SpecLive ==
    Init /\ [][NextLive]_vars
         /\ \A r \in Reqs :
                /\ WF_vars(Authorize(r))
                /\ WF_vars(Start(r))
                /\ WF_vars(Complete(r))
                /\ WF_vars(Respond(r))

----------------------------------------------------------------------------
(* Properties *)

Authorized(r) == auth[r].done /\ auth[r].user # <<>>

Started(r) == proc[r].state \in {"running", "exited"}

ExitedWith(r, codes) ==
    proc[r].state = "exited" /\ proc[r].returncode \in codes

NonZero == ExitCodes \ {0}

(* a bearer token that must fail verification at time t *)
FailsVerification(token, t) ==
    \/ token = <<>>
    \/ ~token[1].wf
    \/ token[1].key # SECRET_KEY
    \/ token[1].exp < t
    \/ token[1].sub = <<>>
    \/ token[1].sub[1] \notin DOMAIN USERS_DB

(* a bearer token that may pass verification at time t *)
MayVerify(token, t) ==
    /\ token # <<>>
    /\ token[1].wf
    /\ token[1].key = SECRET_KEY
    /\ token[1].exp >= t
    /\ token[1].sub # <<>>
    /\ token[1].sub[1] \in DOMAIN USERS_DB

(* C1: the provisioner is started only for a request whose bearer token has
   been verified (signature, expiry, subject in the credential store); a
   request whose token fails verification ends with 401 and the provisioner
   is never started for it. *)
C1_GateBeforeProvisioner ==
    \A r \in Reqs :
        /\ (spawns[r] > 0 \/ proc[r].state # "none") =>
               /\ Authorized(r)
               /\ MayVerify(request[r].token, auth[r].at)
        /\ (auth[r].done /\ (FailsVerification(request[r].token, auth[r].at)
                             \/ auth[r].user = <<>>)) =>
               /\ pc[r] = "Terminal"
               /\ result[r].status = HTTP_401_UNAUTHORIZED
               /\ result[r].type = "error"
               /\ spawns[r] = 0
               /\ proc[r].state = "none"

C1_Witness ==
    \E r \in Reqs :
        /\ request[r].op \in Ops
        /\ request[r].token # <<>>
        /\ request[r].token[1].key # SECRET_KEY
        /\ pc[r] = "Terminal"
        /\ result[r].status = HTTP_401_UNAUTHORIZED
        /\ spawns[r] = 0

CredentialsMatch(username, password) ==
    username \in DOMAIN USERS_DB /\ USERS_DB[username].password = password

(* the provisioner cooperated: it ran, exited with 0 and printed what the
   handler can read *)
Cooperated(r) ==
    /\ ExitedWith(r, {0})
    /\ request[r].op = "list" =>
           \A i \in 1..Len(split(proc[r].stdout, NL)) :
               LET line == split(proc[r].stdout, NL)[i] IN
               line = <<>> \/ Len(split_ws(line)) = 3
    /\ request[r].op = "add" =>
           \E i \in 1..Len(proc[r].stdout) :
               /\ IsPrefix(StackPrefix, SubSeq(proc[r].stdout, i, Len(proc[r].stdout)))
               /\ i + 6 <= Len(proc[r].stdout)
               /\ proc[r].stdout[i + 6] \in Digits

(* C2: a login with a matching username and password issues a token that
   passes the access gate in every call made before 30 minutes have gone by
   (the call succeeding when the provisioner cooperates), and that is
   rejected in every call made after 30 minutes have gone by. *)
C2_TokenLifetime ==
    /\ CredentialsMatch(lastLogin.username, lastLogin.password) =>
           /\ lastLogin.status = HTTP_200_OK
           /\ lastLogin.access_token # <<>>
           /\ lastLogin.access_token[1] \in IssuedTokens
           /\ lastLogin.access_token[1].sub = <<lastLogin.username>>
    /\ \A i \in issued : \A r \in Reqs :
          (auth[r].done /\ request[r].token = <<i.token>>) =>
              /\ auth[r].at < i.iat + 30 =>
                     /\ auth[r].user = i.token.sub
                     /\ pc[r] = "Terminal" =>
                            result[r].status # HTTP_401_UNAUTHORIZED
                     /\ (pc[r] = "Terminal" /\ Cooperated(r)) =>
                            result[r].status = HTTP_200_OK
              /\ auth[r].at > i.iat + 30 =>
                     /\ auth[r].user = <<>>
                     /\ pc[r] = "Terminal"
                     /\ result[r].status = HTTP_401_UNAUTHORIZED
                     /\ spawns[r] = 0

C2_Witness ==
    \E i \in issued : \E r \in Reqs :
        /\ request[r].token = <<i.token>>
        /\ auth[r].done
        /\ auth[r].at > i.iat + 30
        /\ pc[r] = "Terminal"
        /\ result[r].status = HTTP_401_UNAUTHORIZED

(* the message a handler gives a non-zero exit of its subcommand *)
FailureWords(op) ==
    CASE op = "list" -> <<"Failed to list stacks: ">>
      [] op = "add" -> <<"Failed to add stack: ">>
      [] op = "del" -> <<"Failed to remove stack: ">>

IsProvisioningFailure(res) ==
    /\ res.status = HTTP_500_INTERNAL_SERVER_ERROR
    /\ res.type = "error"
    /\ \E op \in Ops : Contains(FailureWords(op), res.detail)

IsOutputParsingError(res) ==
    /\ res.status = HTTP_500_INTERNAL_SERVER_ERROR
    /\ res.type = "error"
    /\ Contains(<<"Failed to extract stack ID from output">>, res.detail)

(* C5: for list, add and del, a non-zero exit of the provisioner ends the
   request in a provisioning failure (500) whose message holds the words of
   the failed subcommand followed by the captured stderr, unaltered. *)
C5_FailureCarriesStderr ==
    \A r \in Reqs :
        (pc[r] = "Terminal" /\ ExitedWith(r, NonZero)) =>
            /\ result[r].status = HTTP_500_INTERNAL_SERVER_ERROR
            /\ result[r].type = "error"
            /\ result[r].stacks = <<>>
            /\ Contains(FailureWords(request[r].op) \o proc[r].stderr,
                        result[r].detail)

C5_Witness ==
    \E r \in Reqs :
        /\ pc[r] = "Terminal"
        /\ request[r].op = "add"
        /\ ExitedWith(r, {1})
        /\ proc[r].stderr = <<"certificate", " ", "issuance", " ", "failed">>
        /\ Contains(<<"Failed to add stack: ", "certificate", " ", "issuance",
                      " ", "failed">>, result[r].detail)

(* C6: for list, add and del, a provisioner that cannot be started ends the
   request in a 500 that is not a provisioning failure, a non-zero exit ends
   it in a provisioning failure, and no start failure gives the response
   that some non-zero exit gives. *)
C6_StartFailureDistinct ==
    \A r \in Reqs :
        /\ (pc[r] = "Terminal" /\ proc[r].state = "nostart") =>
               /\ result[r].status = HTTP_500_INTERNAL_SERVER_ERROR
               /\ ~IsProvisioningFailure(result[r])
               /\ \A code \in NonZero, err \in FewStderrs :
                      result[r] # HandlerResult(request[r],
                                      [NoProc EXCEPT !.state = "exited",
                                                     !.cmd = request[r].op,
                                                     !.returncode = code,
                                                     !.stderr = err])
        /\ (pc[r] = "Terminal" /\ ExitedWith(r, NonZero)) =>
               IsProvisioningFailure(result[r])

C6_Witness ==
    \E r \in Reqs :
        /\ pc[r] = "Terminal"
        /\ request[r].op = "list"
        /\ proc[r].state = "nostart"
        /\ result[r].status = HTTP_500_INTERNAL_SERVER_ERROR
        /\ ~IsProvisioningFailure(result[r])

(* the request met a failure: the start failed, the exit code was not 0 or
   the output could not be read *)
Failure(r) ==
    \/ proc[r].state = "nostart"
    \/ ExitedWith(r, NonZero)
    \/ ExitedWith(r, {0}) /\ ~Cooperated(r)

(* C10: a request starts the provisioner at most once; after a failure the
   provisioner is not started again and the request ends in that failure. *)
C10_NoRetry ==
    \A r \in Reqs :
        /\ spawns[r] <= 1
        /\ pc[r] = "Failed" => (spawns[r] = 1 /\ proc[r].state # "running")
        /\ (pc[r] = "Terminal" /\ Failure(r)) =>
               /\ spawns[r] = 1
               /\ result[r].status = HTTP_500_INTERNAL_SERVER_ERROR

C10_Witness ==
    \E r \in Reqs :
        /\ pc[r] = "Terminal"
        /\ ExitedWith(r, NonZero)
        /\ spawns[r] = 1
        /\ result[r].status = HTTP_500_INTERNAL_SERVER_ERROR

----------------------------------------------------------------------------
(* POST /stacks: the answer text and the reading of the output *)

AddDone(r) ==
    pc[r] = "Terminal" /\ request[r].op = "add" /\ Authorized(r)

(* stack_<digits> stands at position i of s *)
TokenAt(s, i) ==
    /\ i >= 1
    /\ i + 6 <= Len(s)
    /\ <<s[i], s[i + 1], s[i + 2], s[i + 3], s[i + 4], s[i + 5]>>
           = <<"s", "t", "a", "c", "k", "_">>
    /\ s[i + 6] \in Digits

HasToken(s) == \E i \in 1..Len(s) : TokenAt(s, i)

(* id is the whole digit string of the first stack_<digits> of s *)
IsFirstTokenId(s, id) ==
    \E i \in 1..Len(s) :
        /\ TokenAt(s, i)
        /\ \A j \in 1..(i - 1) : ~TokenAt(s, j)
        /\ Len(id) >= 1
        /\ i + 5 + Len(id) <= Len(s)
        /\ id = SubSeq(s, i + 6, i + 5 + Len(id))
        /\ \A k \in 1..Len(id) : id[k] \in Digits
        /\ (i + 6 + Len(id) > Len(s) \/ s[i + 6 + Len(id)] \notin Digits)

(* C3: POST /stacks returns a Stack record exactly when the provisioner
   exited with 0 and its stdout holds stack_<digits>; the id is the digit
   string of the first such token, the two domains are the request's, and no
   other field of the request is returned. *)
C3_CreateReturnsStack ==
    \A r \in Reqs :
        AddDone(r) =>
            /\ (result[r].type = "stack")
                   <=> (ExitedWith(r, {0}) /\ HasToken(proc[r].stdout))
            /\ result[r].type = "stack" =>
                   /\ result[r].status = HTTP_200_OK
                   /\ Len(result[r].stacks) = 1
                   /\ DOMAIN result[r].stacks[1]
                          = {"id", "phoenixd_domain", "lnbits_domain"}
                   /\ IsFirstTokenId(proc[r].stdout, result[r].stacks[1].id)
                   /\ result[r].stacks[1].phoenixd_domain
                          = request[r].body[1].phoenixd_domain
                   /\ result[r].stacks[1].lnbits_domain
                          = request[r].body[1].lnbits_domain

C3_Witness ==
    \E r \in Reqs :
        /\ AddDone(r)
        /\ ExitedWith(r, {0})
        /\ proc[r].stdout = <<"x", "s", "t", "a", "c", "k", "_", "4", "2">>
        /\ result[r].type = "stack"
        /\ result[r].stacks[1] = [id |-> <<"4", "2">>,
                                  phoenixd_domain |-> <<"q">>,
                                  lnbits_domain |-> <<"v">>]

(* C4: POST /stacks whose provisioner exited with 0 without stack_<digits>
   in its stdout ends in the output-parsing error (500), which is not a
   provisioning failure, and returns no Stack record. *)
C4_UnparseableSuccessFails ==
    \A r \in Reqs :
        (AddDone(r) /\ ExitedWith(r, {0}) /\ ~HasToken(proc[r].stdout)) =>
            /\ IsOutputParsingError(result[r])
            /\ ~IsProvisioningFailure(result[r])
            /\ result[r].stacks = <<>>

C4_Witness ==
    \E r \in Reqs :
        /\ AddDone(r)
        /\ ExitedWith(r, {0})
        /\ proc[r].stdout = <<"s", "t", "a", "c", "k", "_", "x">>
        /\ IsOutputParsingError(result[r])

(* C7: the text fed to `init.sh add` is exactly six newline-terminated
   lines: payment domain, wallet domain, y/n for real certificates, contact
   email, y/n for the external database, y; the fourth line is empty when
   use_real_certs is false. *)
C7_SixAnswerLines ==
    \A r \in Reqs :
        (proc[r].cmd = "add" /\ Started(r)) =>
            LET stack == request[r].body[1]
                lines == split(proc[r].stdin, NL)
            IN  /\ Len(lines) = 7
                /\ lines[7] = <<>>
                /\ lines[1] = stack.phoenixd_domain
                /\ lines[2] = stack.lnbits_domain
                /\ lines[3] = IF stack.use_real_certs THEN <<"y">> ELSE <<"n">>
                /\ ~stack.use_real_certs => lines[4] = <<>>
                /\ (stack.use_real_certs /\ stack.email # <<>>) =>
                       lines[4] = stack.email[1]
                /\ lines[5] = IF stack.use_postgres THEN <<"y">> ELSE <<"n">>
                /\ lines[6] = <<"y">>

----------------------------------------------------------------------------
(* GET /stacks: the reading of the listing *)

ListDone(r) ==
    pc[r] = "Terminal" /\ request[r].op = "list" /\ ExitedWith(r, {0})

RecordOf(l) ==
    [id |-> l.id, phoenixd_domain |-> l.phoenixd, lnbits_domain |-> l.lnbits]

(* C8: a listing of N well-formed lines, exit code 0, gives exactly N
   records in the order of the lines, each with the line's first, second and
   third token as id, payment domain and wallet domain. *)
C8_ListingRecords ==
    \A r \in Reqs :
        ListDone(r) =>
            \A ls \in SeqsUpTo(WellFormedLines, MaxLines) :
                LET text == JoinLines([i \in 1..Len(ls) |-> ls[i].text]) IN
                (\/ proc[r].stdout = text
                 \/ ls # <<>> /\ proc[r].stdout = SubSeq(text, 1, Len(text) - 1))
                    => /\ result[r].status = HTTP_200_OK
                       /\ result[r].type = "stacks"
                       /\ result[r].stacks
                              = [i \in 1..Len(ls) |-> RecordOf(ls[i])]

C8_Witness ==
    \E r \in Reqs :
        /\ ListDone(r)
        /\ proc[r].stdout = <<"8", " ", "q", " ", "v", NL,
                              " ", "9", "\t", "p", "q", " ", " ", "w", " ", NL>>
        /\ Len(result[r].stacks) = 2
        /\ result[r].stacks[1].id = <<"8">>
        /\ result[r].stacks[2].phoenixd_domain = <<"p", "q">>

(* a line of the listing that has tokens, but not three of them *)
BadLine(line) == Len(split_ws(line)) \notin {0, 3}

(* C9: empty lines of a listing are skipped; a line that is not blank and
   has not three tokens ends the request in one structured malformed-output
   error (a 500 with a message), with no record of the lines before it. *)
C9_MalformedListingError ==
    \A r \in Reqs :
        ListDone(r) =>
            LET lines == split(proc[r].stdout, NL) IN
            /\ (\A i \in 1..Len(lines) :
                    lines[i] = <<>> \/ Len(split_ws(lines[i])) = 3) =>
                   /\ result[r].type = "stacks"
                   /\ Len(result[r].stacks)
                          = Cardinality({i \in 1..Len(lines) : lines[i] # <<>>})
            /\ (\E i \in 1..Len(lines) : BadLine(lines[i])) =>
                   /\ result[r].status = HTTP_500_INTERNAL_SERVER_ERROR
                   /\ result[r].type = "error"
                   /\ result[r].detail # <<>>
                   /\ result[r].stacks = <<>>

(* an authorized DELETE /stacks/{id} for which the response is built *)
RemoveDone(r) ==
    /\ request[r].op = "del"
    /\ Authorized(r)
    /\ pc[r] = "Terminal"

(* C11: every authorized Remove starts the provisioner's del subcommand,
   once, and its outcome is that of this invocation alone: exit 0 gives the
   success acknowledgment that names the requested id, a non-zero exit gives
   the provisioning failure with the child's stderr; this is so also when a
   removal of the same id was acknowledged before. *)
C11_RemoveOutcome ==
    \A r \in Reqs :
        RemoveDone(r) =>
            /\ spawns[r] = 1
            /\ proc[r].cmd = "del"
            /\ ExitedWith(r, {0}) =>
                   result[r] = Response(HTTP_200_OK, "message", <<>>, <<>>,
                                        <<"Stack ">> \o request[r].stack_id
                                            \o <<" removed successfully">>)
            /\ ExitedWith(r, NonZero) =>
                   /\ IsProvisioningFailure(result[r])
                   /\ Contains(FailureWords("del") \o proc[r].stderr,
                               result[r].detail)

(* a second Remove of an id whose removal was acknowledged: the provisioner
   was started again and its failure is what the caller gets *)
C11_Witness ==
    \E r \in Reqs :
        /\ RemoveDone(r)
        /\ request[r].stack_id \in acked
        /\ spawns[r] = 1
        /\ ExitedWith(r, NonZero)
        /\ proc[r].stderr # <<>>
        /\ IsProvisioningFailure(result[r])

Running == {r \in Reqs : proc[r].state = "running"}

(* C12, as claimed: nothing excludes one request from another, so that a
   request sent while another request's provisioner child is running can be
   taken up and can start its own child beside it. *)
C12_NoMutualExclusion ==
    \A r1, r2 \in Reqs :
        (r1 # r2 /\ proc[r1].state = "running" /\ r2 \in waiting) =>
            ENABLED Receive(r2, Ops, BearerTokens, FewBodies, FewIds)

(* C12, amended: the handlers take no lock, but each one occupies the event
   loop from the moment it is taken up until it has answered, its wait for
   the child included: at most one provisioner child is running at any time,
   and a request sent meanwhile stays untouched. *)
C12_OneChildAtATime ==
    /\ Cardinality(Running) <= 1
    /\ \A r1, r2 \in Reqs :
           (r1 # r2 /\ pc[r1] # "Idle") =>
               /\ pc[r2] = "Idle"
               /\ proc[r2].state = "none"
               /\ spawns[r2] = 0

(* two requests in flight: the child of one runs, the other waits *)
C12_Witness ==
    \E r1, r2 \in Reqs :
        /\ r1 # r2
        /\ request[r1].op \in {"add", "del"}
        /\ proc[r1].state = "running"
        /\ r2 \in waiting
        /\ pc[r2] = "Idle"

(* a request whose bearer token was presented and did not pass the gate *)
TokenRejected(r) ==
    /\ auth[r].done
    /\ request[r].token # <<>>
    /\ \/ FailsVerification(request[r].token, auth[r].at)
       \/ auth[r].user = <<>>

(* the last login was attempted with credentials that do not match *)
LoginMismatch ==
    /\ lastLogin.status # 0
    /\ ~CredentialsMatch(lastLogin.username, lastLogin.password)

(* every rejected token gets the one denial, whatever made it fail *)
UniformTokenDenial ==
    \A r \in Reqs : TokenRejected(r) => result[r] = credentials_exception

(* C13, as claimed: a token that is malformed, signed with another key,
   expired, without subject or of an unknown subject is rejected with one
   and the same status and message, and a login with a username or password
   that does not match is rejected with that same denial. *)
C13_LoginSameDenial ==
    /\ UniformTokenDenial
    /\ LoginMismatch =>
           /\ lastLogin.status = credentials_exception.status
           /\ lastLogin.detail = credentials_exception.detail
           /\ lastLogin.access_token = <<>>

(* C13, amended: the rejected tokens all get the one 401 "Could not validate
   credentials"; a login that does not match gets a 401 as well, with one
   message of its own, "Incorrect username or password", the same for an
   unknown username and for a wrong password, and no token. *)
C13_UniformDenial ==
    /\ UniformTokenDenial
    /\ LoginMismatch =>
           /\ lastLogin.status = HTTP_401_UNAUTHORIZED
           /\ lastLogin.detail = <<"Incorrect username or password">>
           /\ lastLogin.access_token = <<>>

(* a token of a subject unknown to the credential store was rejected, after
   a login of a known user with a wrong password was *)
C13_Witness ==
    /\ LoginMismatch
    /\ lastLogin.username \in DOMAIN USERS_DB
    /\ \E r \in Reqs :
           /\ TokenRejected(r)
           /\ request[r].token[1].wf
           /\ request[r].token[1].key = SECRET_KEY
           /\ request[r].token[1].sub # <<>>
           /\ request[r].token[1].sub[1] \notin DOMAIN USERS_DB
           /\ pc[r] = "Terminal"
           /\ result[r].status = HTTP_401_UNAUTHORIZED

(* the steps from phase to phase of the one state machine of the operations *)
PhaseOrder ==
    { <<"Idle", "Authorizing">>,
      <<"Authorizing", "Invoking">>, <<"Authorizing", "Terminal">>,
      <<"Invoking", "Parsing">>, <<"Invoking", "Failed">>,
      <<"Parsing", "Terminal">>, <<"Failed", "Terminal">>,
      <<"Terminal", "Idle">> }

NonBlankLines(stdout) ==
    {i \in 1..Len(split(stdout, NL)) : split(stdout, NL)[i] # <<>>}

(* a complete typed result: the whole listing, the one stack, or the
   acknowledgment *)
CompleteResult(res, p) ==
    /\ res.status = HTTP_200_OK
    /\ res.detail = <<>>
    /\ \/ /\ res.type = "stacks"
          /\ Len(res.stacks) = Cardinality(NonBlankLines(p.stdout))
          /\ res.message = <<>>
       \/ /\ res.type = "stack"
          /\ Len(res.stacks) = 1
          /\ res.message = <<>>
       \/ /\ res.type = "message"
          /\ res.stacks = <<>>
          /\ res.message # <<>>

(* one error, with nothing of a result in it *)
SingleError(res) ==
    /\ res.status \in {HTTP_401_UNAUTHORIZED, HTTP_500_INTERNAL_SERVER_ERROR}
    /\ res.type \in {"error", "plain"}
    /\ res.stacks = <<>>
    /\ (res.type = "error") => (res.detail # <<>> /\ res.message = <<>>)
    /\ (res.type = "plain") => (res.detail = <<>> /\ res.message # <<>>)

(* C14: every operation goes through the phases Idle, Authorizing, Invoking,
   then Parsing or Failed, then Terminal in this order and never back (a
   request the gate rejects ends from Authorizing, the next request starts
   from Idle again); the caller gets nothing before Terminal, and there
   exactly one result that does not change: a complete typed result or a
   single error. *)
C14_PhaseOrder ==
    [][\A r \in Reqs :
          /\ (pc'[r] # pc[r]) => (<<pc[r], pc'[r]>> \in PhaseOrder)
          /\ (pc'[r] # "Terminal") => (result'[r] = NoResponse)
          /\ (pc'[r] = "Terminal") =>
                 /\ ~(CompleteResult(result'[r], proc'[r])
                          <=> SingleError(result'[r]))
                 /\ (pc[r] = "Terminal") => (result'[r] = result[r])
                 /\ (pc[r] = "Parsing") =>
                        (proc[r].returncode = 0 /\ proc'[r] = proc[r])
                 /\ (pc[r] = "Failed") => SingleError(result'[r])]_vars

(* a listing whose output has a line that cannot be read has ended, in one
   error; it went through Parsing *)
C14_Witness ==
    \E r \in Reqs :
        /\ request[r].op = "list"
        /\ pc[r] = "Terminal"
        /\ ExitedWith(r, {0})
        /\ \E i \in NonBlankLines(proc[r].stdout) :
               BadLine(split(proc[r].stdout, NL)[i])
        /\ SingleError(result[r])
        /\ ~CompleteResult(result[r], proc[r])

(* C15: the handler waits for its child without a bound.  An authorized
   request starts its child and, once the child has exited (or could not be
   started), reaches its terminal result; as long as the child runs the
   request stays where it is, with no result, and only the exit of the child
   moves it on. *)
C15_WaitsForChild ==
    /\ \A r \in Reqs :
           (Authorized(r) /\ pc[r] = "Invoking")
               ~> (proc[r].state = "running" \/ pc[r] = "Terminal")
    /\ \A r \in Reqs :
           (proc[r].state \in {"exited", "nostart"}) ~> (pc[r] = "Terminal")
    /\ [][\A r \in Reqs :
             (proc[r].state = "running") =>
                 /\ pc[r] = "Invoking"
                 /\ result[r] = NoResponse
                 /\ \/ /\ proc'[r] = proc[r]
                       /\ pc'[r] = "Invoking"
                       /\ result'[r] = NoResponse
                    \/ /\ proc'[r].state = "exited"
                       /\ pc'[r] \in {"Parsing", "Failed"}]_vars

(* a child that has been running for the whole time of the model, longer
   than a token lives: the request is still waiting for it *)
C15_Witness ==
    \E r \in Reqs :
        /\ Authorized(r)
        /\ auth[r].at = 0
        /\ now = MaxTime
        /\ now > ACCESS_TOKEN_EXPIRE_MINUTES
        /\ proc[r].state = "running"
        /\ pc[r] = "Invoking"
        /\ result[r] = NoResponse

(* C16: when init.sh add is started with "y" as the third answer line, the
   fourth line is the contact email the caller supplied; a request that asks
   for real certificates and has no contact email is not passed on to the
   provisioner with something else on the fourth line. *)
C16_EmailRequired ==
    \A r \in Reqs :
        (request[r].op = "add" /\ Started(r)) =>
            LET body == request[r].body[1]
                lines == split(proc[r].stdin, NL)
            IN  /\ proc[r].cmd = "add"
                /\ Len(lines) >= 4
                /\ (lines[3] = <<"y">>) =>
                       /\ body.email # <<>>
                       /\ lines[4] = body.email[1]
                /\ ~(body.use_real_certs /\ body.email = <<>>)

(* C17: whatever the stack id of a Remove is, the text written to the stdin
   of init.sh del is two lines, each ended by a newline: the id, then "y". *)
C17_TwoAnswerLines ==
    \A r \in Reqs :
        (request[r].op = "del" /\ Started(r)) =>
            LET lines == split(proc[r].stdin, NL) IN
            /\ proc[r].cmd = "del"
            /\ Len(lines) = 3
            /\ lines[1] = request[r].stack_id
            /\ lines[2] = <<"y">>
            /\ lines[3] = <<>>

(* the listing is what this output says: one record for every line that is
   not empty, with the three tokens of a line *)
ListingOf(stacks, stdout) ==
    LET lines == split(stdout, NL) IN
    /\ Len(stacks) = Cardinality(NonBlankLines(stdout))
    /\ \A i \in NonBlankLines(stdout) :
           \E k \in 1..Len(stacks) :
               split_ws(lines[i]) = <<stacks[k].id, stacks[k].phoenixd_domain,
                                      stacks[k].lnbits_domain>>

(* C18: whatever requests came before, the credential store and the signing
   key are what they were at the start, a request that has been answered
   leaves nothing behind, and the result of a List is given by the exit code
   and the output of its own init.sh list alone. *)
C18_Frame ==
    /\ USERS_DB = InitialUsers
    /\ SECRET_KEY = InitialSecret
    /\ \A r \in Reqs :
           (pc[r] = "Idle") =>
               /\ request[r] = NoRequest
               /\ auth[r] = NoAuth
               /\ proc[r] = NoProc
               /\ spawns[r] = 0
               /\ result[r] = NoResponse
    /\ \A r \in Reqs :
           (request[r].op = "list" /\ Authorized(r) /\ pc[r] = "Terminal") =>
               /\ proc[r].cmd = "list"
               /\ ExitedWith(r, NonZero) =>
                      result[r] = HTTPException(HTTP_500_INTERNAL_SERVER_ERROR,
                                      FailureWords("list") \o proc[r].stderr)
               /\ (ExitedWith(r, {0}) /\ Cooperated(r)) =>
                      /\ result[r].status = HTTP_200_OK
                      /\ result[r].type = "stacks"
                      /\ ListingOf(result[r].stacks, proc[r].stdout)

(* after a login and an acknowledged removal of stack 7, a List whose
   provisioner still prints stack 7 returns it *)
C18_Witness ==
    \E r \in Reqs :
        /\ lastLogin.status = HTTP_200_OK
        /\ <<"7">> \in acked
        /\ request[r].op = "list"
        /\ pc[r] = "Terminal"
        /\ ExitedWith(r, {0})
        /\ proc[r].stdout = <<"7", " ", "p", " ", "w", NL>>
        /\ Len(result[r].stacks) = 1
        /\ result[r].stacks[1].id = <<"7">>
        /\ USERS_DB = InitialUsers

====
